---------------------------- MODULE Spec2Model ----------------------------
(***************************************************************************)
(* easy-fs: the bounded block cache (block_cache.rs), the bitmap allocator *)
(* (bitmap.rs) and the virtual inode layer (vfs.rs) as state machines.     *)
(*                                                                         *)
(* The widths of the code (64-bit words, 64 words per bitmap block, a pool *)
(* of 16 cache entries) are scaled down; every scaled width is a named     *)
(* bound below and the algorithms are written over the names only.         *)
(***************************************************************************)
EXTENDS Integers, Sequences, FiniteSets, TLC

\* ------------------------------------------------------------- bounds
\* bits of one bitmap word (u64 in bitmap.rs:6, scaled)
WORD_BITS == 2
\* words of one bitmap block ([u64; 64] in bitmap.rs:6, scaled)
BLOCK_WORDS == 2
\* Bitmap.blocks of the bitmap under test (bitmap.rs:14)
BitmapBlocks == 2
\* capacity of the cache pool (16 in block_cache.rs:97, scaled)
BLOCK_CACHE_SIZE == 2
\* handles to one cache entry held outside the pool at one time
MaxRefs == 1
\* dealloc calls in one run of the bitmap
MaxDealloc == 2
\* directory entries of one data block (BLOCK_SZ / DIRENT_SZ = 16, scaled)
DIRENTS_PER_BLOCK == 1
\* DiskInodes of one block of the inode area (BLOCK_SZ / 128 = 4, scaled)
INODES_PER_BLOCK == 2
\* Inode operations in one run of the filesystem
MaxOps == 4
\* the longest buffer of a read_at or write_at
MaxLen == 2
\* threads that call Inode operations at the same time
MaxThreads == 2
\* calls the threads make in one run
MaxCalls == 2

\* ------------------------------------------------------------- values
None == <<>>
Some(x) == <<x>>

Min(S) == CHOOSE x \in S : \A y \in S : x <= y

\* bitmap.rs:8  const BLOCK_BITS: usize = BLOCK_SZ * 8  (= 64 words of 64 bits)
BLOCK_BITS == BLOCK_WORDS * WORD_BITS
\* u64::MAX at the scaled width
U64_MAX == 2^WORD_BITS - 1

\* 1u64 << inner_pos
Shl1(inner_pos) == 2^inner_pos
\* bits64 & (1u64 << inner_pos) > 0
TestBit(bits64, inner_pos) == (bits64 \div Shl1(inner_pos)) % 2 = 1
\* bits64 |= 1u64 << inner_pos
OrBit_keep(bits64, inner_pos) == bits64
OrBit(bits64, inner_pos) ==
    IF TestBit(bits64, inner_pos) THEN bits64 ELSE bits64 + Shl1(inner_pos)
\* bits64 -= 1u64 << inner_pos   (wrapping at the word width)
SubBit(bits64, inner_pos) == (bits64 - Shl1(inner_pos)) % (U64_MAX + 1)

\* u64::trailing_ones: the number of consecutive one bits from bit 0 up
trailing_ones_high(bits64) ==
    IF bits64 = U64_MAX THEN WORD_BITS
    ELSE CHOOSE i \in 0..(WORD_BITS - 1) :
            /\ ~TestBit(bits64, i)
            /\ \A j \in (i + 1)..(WORD_BITS - 1) : TestBit(bits64, j)
RECURSIVE trailing_ones(_)
trailing_ones(bits64) ==
    IF bits64 % 2 = 1 THEN 1 + trailing_ones(bits64 \div 2) ELSE 0

\* bitmap.rs:19-23
decomposition(bit) ==
    [block_pos  |-> bit \div BLOCK_BITS,
     bits64_pos |-> (bit % BLOCK_BITS) \div WORD_BITS,
     inner_pos  |-> (bit % BLOCK_BITS) % WORD_BITS]

\* ------------------------------------------------------------- state
VARIABLES
    disk,       \* the block device: block id -> the block's content
    queue,      \* BlockCacheManager.queue: the resident entries, front first
    orphans,    \* BlockCache objects out of the queue and still referenced
    panicked,   \* a panic! or a failed assert! has stopped the kernel
    last,       \* the last operation: its name, argument, result and the
                \* set bits it started from
    run,        \* the history of the bitmap run (alloc/dealloc counters)
    written     \* block id -> the content last stored in it through modify

vars == <<disk, queue, orphans, panicked, last, run, written>>

\* The manager, its device and the panic flag as one value the operations
\* below pass along.
St == [disk |-> disk, queue |-> queue, orphans |-> orphans, panicked |-> panicked]

SetSt(m) ==
    /\ disk' = m.disk
    /\ queue' = m.queue
    /\ orphans' = m.orphans
    /\ panicked' = m.panicked

\* ------------------------------------------------------------- block cache
\* BlockCache::new: the buffer is read from the device, modified = false.
\* refs counts the Arc handles outside the queue: strong_count = 1 + refs
\* while the entry is in the queue.
BlockCache_new(m, block_id, refs) ==
    [block_id |-> block_id, cache |-> m.disk[block_id], modified |-> FALSE,
     refs |-> refs]

\* BlockCache::sync applied to entry e: the device after it
sync_disk(d, e) == IF e.modified THEN [d EXCEPT ![e.block_id] = e.cache] ELSE d
\* BlockCache::sync applied to entry e: the entry after it
sync_entry(e) == [e EXCEPT !.modified = FALSE]

\* Arc::strong_count(&pair.1) of a queue entry
strong_count(e) == 1 + e.refs

RemoveAt(s, i) == SubSeq(s, 1, i - 1) \o SubSeq(s, i + 1, Len(s))

\* self.queue.iter().find(|pair| pair.0 == block_id): its index, 0 for none
find_pair_never(q, block_id) == 0
find_pair(q, block_id) ==
    LET S == {i \in 1..Len(q) : q[i].block_id = block_id}
    IN  IF S = {} THEN 0 ELSE Min(S)

\* queue.iter().enumerate().find(|(_, pair)| Arc::strong_count(&pair.1) == 1)
find_victim_last(q) ==
    LET S == {i \in 1..Len(q) : strong_count(q[i]) = 1}
    IN  IF S = {} THEN 0 ELSE CHOOSE i \in S : \A j \in S : j <= i
find_victim_any(q) == IF Len(q) = 0 THEN 0 ELSE 1
find_victim(q) ==
    LET S == {i \in 1..Len(q) : strong_count(q[i]) = 1}
    IN  IF S = {} THEN 0 ELSE Min(S)

\* self.queue.drain(idx..=idx): the pool's Arc of the entry goes; the
\* BlockCache is dropped (Drop = sync) when that was the last one.
drain_no_sync(m, idx) ==
    LET e == m.queue[idx]
    IN  IF e.refs = 0
        THEN [m EXCEPT !.queue = RemoveAt(@, idx)]
        ELSE [m EXCEPT !.queue = RemoveAt(@, idx), !.orphans = Append(@, e)]
drain(m, idx) ==
    LET e == m.queue[idx]
    IN  IF e.refs = 0
        THEN [m EXCEPT !.queue = RemoveAt(@, idx), !.disk = sync_disk(@, e)]
        ELSE [m EXCEPT !.queue = RemoveAt(@, idx), !.orphans = Append(@, e)]

\* BlockCacheManager::get_block_cache.  The result is the manager after the
\* call and h, the queue index of the entry the returned Arc points to
\* (0 after a panic).
get_block_cache_no_evict(m, block_id) ==
    LET hit == find_pair(m.queue, block_id)
    IN  IF hit # 0
        THEN [m |-> [m EXCEPT !.queue[hit].refs = @ + 1], h |-> hit]
        ELSE [m |-> [m EXCEPT !.queue = Append(@, BlockCache_new(m, block_id, 1))],
              h |-> Len(m.queue) + 1]
get_block_cache(m, block_id) ==
    LET hit == find_pair(m.queue, block_id)
    IN  IF hit # 0
        THEN [m |-> [m EXCEPT !.queue[hit].refs = @ + 1], h |-> hit]
        ELSE LET full == Len(m.queue) = BLOCK_CACHE_SIZE
                 idx == find_victim(m.queue)
             IN  IF full /\ idx = 0
                 THEN [m |-> [m EXCEPT !.panicked = TRUE], h |-> 0]
                 ELSE LET m1 == IF full THEN drain(m, idx) ELSE m
                          e == BlockCache_new(m1, block_id, 1)
                      IN  [m |-> [m1 EXCEPT !.queue = Append(@, e)],
                           h |-> Len(m1.queue) + 1]

\* BlockCache::modify through the handle h: get_mut sets modified and the
\* closure's result is stored in the buffer.
modify_no_dirty(m, h, cache) == [m EXCEPT !.queue[h].cache = cache]
modify(m, h, cache) ==
    [m EXCEPT !.queue[h].cache = cache, !.queue[h].modified = TRUE]

\* The temporary Arc returned by get_block_cache goes out of scope.
drop_handle(m, h) == [m EXCEPT !.queue[h].refs = @ - 1]

\* ------------------------------------------------------------- bitmap
\* Bitmap::new(start_block_id, blocks)
Bm == [start_block_id |-> 0, blocks |-> BitmapBlocks]

\* bitmap.rs:79-81
maximum(bm) == bm.blocks * BLOCK_BITS

\* The closure of Bitmap::alloc on one bitmap block (bitmap.rs:47-60): the
\* first word that is not u64::MAX, its trailing_ones() the bit to set.
alloc_in_block_last(bitmap_block, block_id) ==
    LET S == {w \in 1..BLOCK_WORDS : bitmap_block[w] # U64_MAX}
    IN  IF S # {}
        THEN LET w == CHOOSE x \in S : \A y \in S : y <= x
                 inner_pos == trailing_ones(bitmap_block[w])
             IN  [blk |-> [bitmap_block EXCEPT ![w] = OrBit(@, inner_pos)],
                  pos |-> Some(block_id * BLOCK_BITS + (w - 1) * WORD_BITS + inner_pos)]
        ELSE [blk |-> bitmap_block, pos |-> None]
alloc_in_block(bitmap_block, block_id) ==
    LET S == {w \in 1..BLOCK_WORDS : bitmap_block[w] # U64_MAX}
    IN  IF S # {}
        THEN LET w == Min(S)
                 bits64_pos == w - 1
                 inner_pos == trailing_ones(bitmap_block[w])
             IN  [blk |-> [bitmap_block EXCEPT ![w] = OrBit(@, inner_pos)],
                  pos |-> Some(block_id * BLOCK_BITS + bits64_pos * WORD_BITS + inner_pos)]
        ELSE [blk |-> bitmap_block, pos |-> None]

\* Bitmap::alloc (bitmap.rs:35-66): the loop over the blocks from block_id
\* on.  Every block visited is fetched through the cache and modify()-ed,
\* found or not.
RECURSIVE alloc_loop(_, _, _)
alloc_loop(bm, m, block_id) ==
    IF block_id >= bm.blocks THEN [m |-> m, pos |-> None]
    ELSE LET g == get_block_cache(m, block_id + bm.start_block_id)
         IN  IF g.m.panicked THEN [m |-> g.m, pos |-> None]
             ELSE LET r == alloc_in_block(g.m.queue[g.h].cache, block_id)
                      m2 == drop_handle(modify(g.m, g.h, r.blk), g.h)
                  IN  IF r.pos # None THEN [m |-> m2, pos |-> r.pos]
                      ELSE alloc_loop(bm, m2, block_id + 1)

alloc_first_block_only(bm, m) ==
    LET g == get_block_cache(m, bm.start_block_id)
        r == alloc_in_block(g.m.queue[g.h].cache, 0)
    IN  [m |-> drop_handle(modify(g.m, g.h, r.blk), g.h), pos |-> r.pos]
alloc(bm, m) == alloc_loop(bm, m, 0)

\* Bitmap::dealloc (bitmap.rs:69-77).  get_mut marks the entry modified
\* before the closure runs; the assert! stops the kernel with the bits as
\* they were.
dealloc_no_assert(bm, m, bit) ==
    LET d == decomposition(bit)
        g == get_block_cache(m, d.block_pos + bm.start_block_id)
        blk == g.m.queue[g.h].cache
        w == d.bits64_pos + 1
    IN  IF g.m.panicked THEN g.m
        ELSE drop_handle(
                 modify(g.m, g.h, [blk EXCEPT ![w] = SubBit(@, d.inner_pos)]), g.h)
dealloc(bm, m, bit) ==
    LET d == decomposition(bit)
        g == get_block_cache(m, d.block_pos + bm.start_block_id)
        blk == g.m.queue[g.h].cache
        w == d.bits64_pos + 1
    IN  IF g.m.panicked THEN g.m
        ELSE IF ~TestBit(blk[w], d.inner_pos)
             THEN [modify(g.m, g.h, blk) EXCEPT !.panicked = TRUE]
             ELSE drop_handle(
                      modify(g.m, g.h, [blk EXCEPT ![w] = SubBit(@, d.inner_pos)]),
                      g.h)

\* The content of block b as a reader through the cache sees it.
Cached(m, b) ==
    LET i == find_pair(m.queue, b)
    IN  IF i # 0 THEN m.queue[i].cache ELSE m.disk[b]

\* The units of bitmap bm whose bit is set.
SetBits(bm, m) ==
    LET blks == [p \in 0..(bm.blocks - 1) |-> Cached(m, p + bm.start_block_id)]
    IN  {i \in 0..(maximum(bm) - 1) :
            LET d == decomposition(i)
            IN  TestBit(blks[d.block_pos][d.bits64_pos + 1], d.inner_pos)}

Units == 0..(maximum(Bm) - 1)
Bits == SetBits(Bm, St)

ZeroBlock == [w \in 1..BLOCK_WORDS |-> 0]

NoOp == [op |-> "init", arg |-> None, ret |-> None, pre |-> {}]

\* The run's history: phase "fill" while only alloc has been called (k of
\* them returned Some), "freed" after one dealloc of a unit j < k in that
\* phase, "refilled" after the alloc that follows it, "other" from then on;
\* live is the set of units alloc returned and dealloc has not freed since.
Run0 == [phase |-> "fill", k |-> 0, j |-> 0, deallocs |-> 0, live |-> {}]

PhaseAfterAlloc(pos) ==
    CASE run.phase = "fill" ->
            IF pos # None THEN [run EXCEPT !.k = @ + 1] ELSE run
      [] run.phase = "freed" -> [run EXCEPT !.phase = "refilled"]
      [] OTHER -> [run EXCEPT !.phase = "other", !.k = 0, !.j = 0]

RunAfterAlloc(pos) ==
    [PhaseAfterAlloc(pos) EXCEPT !.live = IF pos # None THEN @ \cup {pos[1]} ELSE @]

PhaseAfterDealloc(bit, ok) ==
    IF run.phase = "fill" /\ ok /\ bit < run.k
    THEN [run EXCEPT !.phase = "freed", !.j = bit, !.deallocs = @ + 1]
    ELSE [run EXCEPT !.phase = "other", !.k = 0, !.j = 0, !.deallocs = @ + 1]

RunAfterDealloc(bit, ok) ==
    [PhaseAfterDealloc(bit, ok) EXCEPT !.live = IF ok THEN @ \ {bit} ELSE @]

InitBitmap ==
    /\ disk = [b \in Bm.start_block_id..(Bm.start_block_id + Bm.blocks - 1)
                  |-> ZeroBlock]
    /\ queue = <<>>
    /\ orphans = <<>>
    /\ panicked = FALSE
    /\ last = NoOp
    /\ run = Run0
    /\ written = disk

Alloc ==
    /\ ~panicked
    /\ LET r == alloc(Bm, St)
       IN  /\ SetSt(r.m)
           /\ last' = [op |-> "alloc", arg |-> None, ret |-> r.pos, pre |-> Bits]
           /\ run' = RunAfterAlloc(r.pos)
           /\ UNCHANGED written

Dealloc(bit) ==
    /\ ~panicked
    /\ run.deallocs < MaxDealloc
    /\ LET m == dealloc(Bm, St, bit)
       IN  /\ SetSt(m)
           /\ last' = [op |-> "dealloc", arg |-> Some(bit), ret |-> None, pre |-> Bits]
           /\ run' = RunAfterDealloc(bit, ~m.panicked)
           /\ UNCHANGED written

NextBitmap ==
    \/ Alloc
    \/ \E bit \in Units : Dealloc(bit)

SpecBitmap == InitBitmap /\ [][NextBitmap]_vars

\* ------------------------------------------------------------- cache pool
\* The block ids of the device under the pool: one more than the pool holds.
CacheBlocks == 0..BLOCK_CACHE_SIZE
\* The contents a block takes.
Bytes == {0, 1}

\* The live BlockCache objects: the resident ones, then the orphans.
Live == queue \o orphans

InitCache ==
    /\ disk = [b \in CacheBlocks |-> 0]
    /\ queue = <<>>
    /\ orphans = <<>>
    /\ panicked = FALSE
    /\ last = [op |-> "init", ret |-> ""]
    /\ run = Run0
    /\ written = disk

\* The branch get_block_cache takes for block_id (block_cache.rs:121-139).
get_path(m, block_id) ==
    IF find_pair(m.queue, block_id) # 0 THEN "hit"
    ELSE IF Len(m.queue) # BLOCK_CACHE_SIZE THEN "miss"
    ELSE IF find_victim(m.queue) # 0 THEN "evict"
    ELSE "panic"

\* get_block_cache(block_id, device): the caller keeps the Arc it returns.
Get(block_id) ==
    /\ ~panicked
    /\ LET hit == find_pair(queue, block_id)
       IN  hit # 0 => queue[hit].refs < MaxRefs
    /\ LET g == get_block_cache(St, block_id)
       IN  /\ SetSt(g.m)
           /\ last' = [op |-> "get", ret |-> get_path(St, block_id)]
    /\ UNCHANGED <<run, written>>

\* A caller drops the Arc it holds on the i-th live BlockCache; the last
\* Arc of a BlockCache out of the queue drops it (Drop = sync).
Release(i) ==
    /\ ~panicked
    /\ Live[i].refs > 0
    /\ IF i <= Len(queue)
       THEN /\ queue' = [queue EXCEPT ![i].refs = @ - 1]
            /\ UNCHANGED <<disk, orphans>>
       ELSE LET o == i - Len(queue)
                e == orphans[o]
            IN  IF e.refs = 1
                THEN /\ orphans' = RemoveAt(orphans, o)
                     /\ disk' = sync_disk(disk, e)
                     /\ UNCHANGED queue
                ELSE /\ orphans' = [orphans EXCEPT ![o].refs = @ - 1]
                     /\ UNCHANGED <<disk, queue>>
    /\ last' = [op |-> "release", ret |-> ""]
    /\ UNCHANGED <<panicked, run, written>>

\* cache.lock().modify(0, |b| *b = v) by a caller holding an Arc on the
\* i-th live BlockCache.
Modify(i, v) ==
    /\ ~panicked
    /\ Live[i].refs > 0
    /\ IF i <= Len(queue)
       THEN /\ queue' = modify(St, i, v).queue
            /\ UNCHANGED orphans
       ELSE /\ orphans' = [orphans EXCEPT ![i - Len(queue)].cache = v,
                                          ![i - Len(queue)].modified = TRUE]
            /\ UNCHANGED queue
    /\ written' = [written EXCEPT ![Live[i].block_id] = v]
    /\ last' = [op |-> "modify", ret |-> ""]
    /\ UNCHANGED <<disk, panicked, run>>

\* block_cache_sync_all (block_cache.rs:171-176): sync of every entry of the
\* queue, front to back.
RECURSIVE sync_from(_, _)
sync_from(m, i) ==
    IF i > Len(m.queue) THEN m
    ELSE sync_from([m EXCEPT !.disk = sync_disk(@, m.queue[i]),
                             !.queue[i] = sync_entry(@)], i + 1)

block_cache_sync_first(m) == IF Len(m.queue) = 0 THEN m ELSE
    [m EXCEPT !.disk = sync_disk(@, m.queue[1]), !.queue[1] = sync_entry(@)]
block_cache_sync_all(m) == sync_from(m, 1)

SyncAll ==
    /\ ~panicked
    /\ SetSt(block_cache_sync_all(St))
    /\ last' = [op |-> "sync_all",
                ret |-> IF \E i \in 1..Len(queue) : queue[i].modified
                        THEN "flushed" ELSE "clean"]
    /\ UNCHANGED <<run, written>>

NextCache ==
    \/ \E b \in CacheBlocks : Get(b)
    \/ \E i \in 1..Len(Live) : Release(i)
    \/ \E i \in 1..Len(Live) : \E v \in Bytes : Modify(i, v)
    \/ SyncAll

SpecCache == InitCache /\ [][NextCache]_vars

\* ------------------------------------------------------------- cache claims
BlockIds(q) == {q[i].block_id : i \in 1..Len(q)}

\* C5: the queue never holds more than BLOCK_CACHE_SIZE entries, and no entry
\* leaves the queue while an Arc outside the queue refers to it.
C5_CapacityPinning ==
    /\ Len(queue) <= BLOCK_CACHE_SIZE
    /\ orphans = <<>>

\* C5 witness: a miss on the full pool has evicted an entry behind the
\* front one, which a caller holds.
C5_Witness ==
    /\ last.op = "get" /\ last.ret = "evict"
    /\ Len(queue) = BLOCK_CACHE_SIZE
    /\ queue[1].refs > 0

\* C6: no two live BlockCache objects, in the queue or held by a caller,
\* mirror the same block.
C6_OneCopyPerBlock ==
    \A i, j \in 1..Len(Live) : Live[i].block_id = Live[j].block_id => i = j

\* C6 witness: a get of a resident block hit on the full pool.
C6_Witness ==
    /\ last.op = "get" /\ last.ret = "hit"
    /\ Len(queue) = BLOCK_CACHE_SIZE
    /\ \E i \in 1..Len(queue) : queue[i].refs = MaxRefs /\ queue[i].modified

\* C7: a block with no live BlockCache holds on the device what modify last
\* stored in it: eviction wrote the dirty buffer back before discarding it.
C7_WriteBackBeforeDiscard ==
    \A b \in DOMAIN disk :
        b \notin BlockIds(Live) => disk[b] = written[b]

\* C7 witness: a modified block has been evicted.
C7_Witness ==
    /\ last.op = "get" /\ last.ret = "evict"
    /\ \E b \in DOMAIN disk : b \notin BlockIds(Live) /\ written[b] = 1

\* The pool is full and every entry is referenced outside the queue.
Exhausted ==
    /\ Len(queue) = BLOCK_CACHE_SIZE
    /\ \A i \in 1..Len(queue) : queue[i].refs > 0

\* C8: a miss on a full pool whose entries are all referenced outside the
\* queue panics; it evicts nothing and admits nothing.
C8_ExhaustionFatal ==
    [][\A b \in CacheBlocks :
          (Exhausted /\ find_pair(queue, b) = 0 /\ Get(b)) =>
              /\ panicked'
              /\ queue' = queue
              /\ orphans' = orphans
              /\ disk' = disk]_vars

\* C8 witness: the kernel has panicked in get_block_cache on a full pool of
\* referenced entries.
C8_Witness ==
    /\ panicked /\ last.op = "get" /\ last.ret = "panic"
    /\ Exhausted

\* C9: block_cache_sync_all writes every dirty resident buffer to the device
\* and clears its flag; the entries, their order, their buffers and their
\* reference counts stay, and so do the blocks that are not resident.
C9_SyncAll ==
    [][last'.op = "sync_all" =>
          /\ queue' = [i \in 1..Len(queue) |-> [queue[i] EXCEPT !.modified = FALSE]]
          /\ \A i \in 1..Len(queue) : disk'[queue[i].block_id] = queue[i].cache
          /\ \A b \in DOMAIN disk : b \notin BlockIds(queue) => disk'[b] = disk[b]
          /\ orphans' = orphans /\ ~panicked']_vars

\* C9 witness: sync_all has flushed a dirty entry of a full pool with a
\* referenced entry in it.
C9_Witness ==
    /\ last.op = "sync_all" /\ last.ret = "flushed"
    /\ Len(queue) = BLOCK_CACHE_SIZE
    /\ \E i \in 1..Len(queue) : queue[i].refs > 0
    /\ \E i \in 1..Len(queue) : disk[queue[i].block_id] = 1

\* The block ids of a queue, front to back.
QueueOrder(q) == [i \in 1..Len(q) |-> q[i].block_id]

\* C25: get_block_cache replaces first in, first out, skipping referenced
\* entries.  A hit leaves the order of the queue as it was; a miss below the
\* capacity evicts nothing and appends the new block at the tail; a miss on
\* the full pool removes the earliest entry that only the queue refers to,
\* keeps the others in their order and appends the new block at the tail.
C25_FifoPinning ==
    [][last'.op = "get" =>
          LET n == Len(queue)
              unpinned == {i \in 1..n : queue[i].refs = 0}
          IN  /\ last'.ret = "hit" => QueueOrder(queue') = QueueOrder(queue)
              /\ last'.ret = "miss" =>
                    /\ n < BLOCK_CACHE_SIZE /\ Len(queue') = n + 1
                    /\ SubSeq(queue', 1, n) = queue
                    /\ queue'[n + 1].block_id \notin BlockIds(queue)
              /\ last'.ret = "evict" =>
                    /\ n = BLOCK_CACHE_SIZE /\ Len(queue') = n
                    /\ unpinned # {}
                    /\ SubSeq(queue', 1, n - 1) = RemoveAt(queue, Min(unpinned))
                    /\ queue'[n].block_id \notin BlockIds(queue)]_vars

\* C25 witness: a miss on the full pool has evicted an entry and appended
\* the new block behind an unreferenced entry that entered later.
C25_Witness ==
    /\ last.op = "get" /\ last.ret = "evict"
    /\ Len(queue) = BLOCK_CACHE_SIZE
    /\ queue[1].refs = 0 /\ queue[Len(queue)].refs = 1

\* get_block_cache(block_id, device).lock().read(0, |b| *b): the content the
\* returned BlockCache holds, None when get_block_cache panics.
read_through(g) ==
    IF g.m.panicked THEN None ELSE Some(g.m.queue[g.h].cache)

\* C26: a read of a block through the cache returns what the latest modify
\* stored in it, and the device's original content when it was never
\* modified, whatever was evicted and loaded again in between.
C26_CacheTransparent ==
    ~panicked =>
        \A b \in CacheBlocks :
            read_through(get_block_cache(St, b)) \in {None, Some(written[b])}

\* C26 witness: a miss has loaded from the device a block that was modified
\* while it was resident earlier.
C26_Witness ==
    /\ last.op = "get" /\ last.ret \in {"miss", "evict"}
    /\ queue[Len(queue)].cache = 1
    /\ written[queue[Len(queue)].block_id] = 1

\* ------------------------------------------------------------- bitmap claims
\* C1: in every reachable bitmap state with a clear bit, alloc returns the
\* lowest clear unit index (first fit by block, then word, then bit) and
\* sets exactly that bit.
C1_AllocLowestFree ==
    (last.op = "alloc" /\ last.pre # Units) =>
        LET lowest == Min(Units \ last.pre)
        IN  /\ last.ret = Some(lowest)
            /\ Bits = last.pre \cup {lowest}

\* C1 witness: an alloc has filled a hole of the first block while a unit
\* of the second block is set.
C1_Witness ==
    /\ last.op = "alloc" /\ last.ret # None
    /\ last.ret[1] < BLOCK_BITS
    /\ \E j \in Bits : j >= BLOCK_BITS
    /\ run.phase = "other"

\* C2: from the empty bitmap the k-th successful alloc returns k-1, and the
\* alloc that follows the dealloc of one of those units j returns j.
C2_RoundTrip ==
    /\ (run.phase = "fill" /\ last.op = "alloc" /\ last.ret # None)
          => last.ret = Some(run.k - 1)
    /\ (run.phase = "refilled" /\ last.op = "alloc") => last.ret = Some(run.j)

\* C2 witness: k units were allocated, one below the last was freed and the
\* next alloc has returned.
C2_Witness ==
    /\ run.phase = "refilled" /\ last.op = "alloc"
    /\ run.k > BLOCK_BITS /\ run.j + 1 < run.k

\* C3: alloc returns None exactly when every bit of the region is set, and
\* then changes no bit; from the empty bitmap that is exactly after
\* maximum() allocs that returned Some.
C3_Exhaustion ==
    last.op = "alloc" =>
        /\ (last.ret = None) <=> (last.pre = Units)
        /\ (last.ret = None) => (Bits = last.pre)
        /\ (run.phase = "fill") =>
              /\ last.ret = None => run.k = maximum(Bm)
              /\ last.ret # None => run.k <= maximum(Bm)

\* C3 witness: the alloc after maximum() successful ones returned None.
C3_Witness ==
    /\ run.phase = "fill" /\ run.k = maximum(Bm)
    /\ last.op = "alloc" /\ last.ret = None
    /\ Bits = Units

\* C4: dealloc of a unit whose bit is clear stops the kernel and changes no
\* bit; dealloc of a unit whose bit is set clears exactly that bit.
C4_DoubleFree ==
    last.op = "dealloc" =>
        LET i == last.arg[1]
        IN  IF i \in last.pre
            THEN ~panicked /\ Bits = last.pre \ {i}
            ELSE panicked /\ Bits = last.pre

\* C4 witness: a unit was freed twice and the second dealloc panicked.
C4_Witness ==
    /\ panicked /\ last.op = "dealloc"
    /\ run.deallocs = 2 /\ Bits # {}

\* C27: one Bitmap never hands out a unit twice.  alloc returns a unit that
\* is not among those it returned earlier and dealloc has not freed since;
\* the set bits are exactly the units allocated and not yet freed; an alloc
\* that returns a unit sets exactly one bit and a dealloc that returns
\* clears exactly one bit.
C27_NoDoubleAlloc ==
    /\ Bits = run.live
    /\ (last.op = "alloc" /\ last.ret # None) =>
          /\ last.ret[1] \notin last.pre
          /\ last.pre \subseteq Bits /\ Cardinality(Bits \ last.pre) = 1
    /\ (last.op = "dealloc" /\ ~panicked) =>
          /\ Bits \subseteq last.pre /\ Cardinality(last.pre \ Bits) = 1

\* C27 witness: alloc has returned again a unit that was allocated and freed
\* earlier, while other units stay allocated in both bitmap blocks.
C27_Witness ==
    /\ last.op = "alloc" /\ last.ret # None
    /\ run.deallocs > 0
    /\ \E i, j \in last.pre : i < last.ret[1] /\ j >= BLOCK_BITS

\* ------------------------------------------------------------- layout
\* The on-disk structures of easy-fs.  layout.rs and efs.rs are not among the
\* sources: DirEntry, DiskInode and EasyFileSystem follow sections 4.3-4.5
\* of the specification.  A data block is a row of BLOCK_SZ cells; a
\* DirEntry is two cells, the name and the inode id.

\* the cells of one DirEntry: its name, its inode id
DIRENT_SZ == 2
BLOCK_SZ == DIRENTS_PER_BLOCK * DIRENT_SZ

\* The file names callers use, as cell values.
Names == {1, 2}

\* DirEntry::new(name, inode_id).as_bytes()
DirEntry_new(name, inode_id) == <<name, inode_id>>
\* DirEntry::name, DirEntry::inode_id
DirEntry_name(dirent) == dirent[1]
DirEntry_inode_id(dirent) == dirent[2]

\* The regions of the device, in the order of the persisted layout:
\* superblock, inode bitmap, inode table, data bitmap, data blocks.
InodeBitmap == [start_block_id |-> 1, blocks |-> 1]
inode_area_start_block == InodeBitmap.start_block_id + InodeBitmap.blocks
inode_area_blocks ==
    (maximum(InodeBitmap) + INODES_PER_BLOCK - 1) \div INODES_PER_BLOCK
DataBitmap == [start_block_id |-> inode_area_start_block + inode_area_blocks,
               blocks |-> 1]
data_area_start_block == DataBitmap.start_block_id + DataBitmap.blocks
data_area_blocks == maximum(DataBitmap)
FsBlocks == 0..(data_area_start_block + data_area_blocks - 1)

\* EasyFileSystem::get_disk_inode_pos: the block of the inode table and the
\* slot in it of inode_id (the Inode handle's block_id, block_offset).
get_disk_inode_pos(inode_id) ==
    [block_id |-> inode_area_start_block + (inode_id \div INODES_PER_BLOCK),
     block_offset |-> inode_id % INODES_PER_BLOCK]

\* DiskInode: size, type and the backing block of every block position.
NoDirect == [i \in 1..data_area_blocks |-> 0]
\* DiskInode::initialize(type_)
DiskInode_initialize(type_) == [size |-> 0, direct |-> NoDirect, type_ |-> type_]
\* DiskInode::is_dir
is_dir(disk_inode) == disk_inode.type_ = "Directory"
\* DiskInode::total_blocks(size): the data blocks that hold size cells
total_blocks(size) == (size + BLOCK_SZ - 1) \div BLOCK_SZ
\* DiskInode::blocks_num_needed(new_size)
blocks_num_needed(disk_inode, new_size) ==
    total_blocks(new_size) - total_blocks(disk_inode.size)
\* DiskInode::increase_size(new_size, new_blocks): the fresh blocks back the
\* positions after those the current size covers.
DiskInode_increase_size(disk_inode, new_size, new_blocks) ==
    LET cur == total_blocks(disk_inode.size)
    IN  [disk_inode EXCEPT
            !.size = new_size,
            !.direct = [i \in 1..data_area_blocks |->
                           IF i > cur /\ i <= cur + Len(new_blocks)
                           THEN new_blocks[i - cur] ELSE @[i]]]

\* The handle dropped at the end of a statement or closure: the Arc on the
\* resident entry of block_id.
unpin(m, block_id) == drop_handle(m, find_pair(m.queue, block_id))

\* DiskInode::read_at(offset, buf, device) for a buf of len cells: the cells
\* [offset, min(offset + len, size)), block by block through the cache.
RECURSIVE read_at_loop(_, _, _, _, _)
read_at_loop(m, disk_inode, start, end, buf) ==
    IF start >= end THEN [m |-> m, buf |-> buf]
    ELSE LET inner_id == start \div BLOCK_SZ
             end_cur == IF (inner_id + 1) * BLOCK_SZ < end
                        THEN (inner_id + 1) * BLOCK_SZ ELSE end
             g == get_block_cache(m, disk_inode.direct[inner_id + 1])
         IN  IF g.m.panicked THEN [m |-> g.m, buf |-> buf]
             ELSE LET data_block == g.m.queue[g.h].cache
                      piece == SubSeq(data_block, (start % BLOCK_SZ) + 1,
                                      (start % BLOCK_SZ) + end_cur - start)
                  IN  read_at_loop(drop_handle(g.m, g.h), disk_inode, end_cur,
                                   end, buf \o piece)

DiskInode_read_at(m, disk_inode, offset, len) ==
    LET end == IF offset + len < disk_inode.size
               THEN offset + len ELSE disk_inode.size
    IN  read_at_loop(m, disk_inode, offset, end, <<>>)

\* DiskInode::write_at(offset, buf, device): the cells of buf that fall
\* below size, block by block through the cache; the inode does not grow.
RECURSIVE write_at_loop(_, _, _, _, _)
write_at_loop(m, disk_inode, start, end, buf) ==
    IF start >= end THEN m
    ELSE LET inner_id == start \div BLOCK_SZ
             end_cur == IF (inner_id + 1) * BLOCK_SZ < end
                        THEN (inner_id + 1) * BLOCK_SZ ELSE end
             n == end_cur - start
             g == get_block_cache(m, disk_inode.direct[inner_id + 1])
         IN  IF g.m.panicked THEN g.m
             ELSE LET data_block == g.m.queue[g.h].cache
                      lo == start % BLOCK_SZ
                      new_block == [i \in 1..BLOCK_SZ |->
                                       IF i > lo /\ i <= lo + n
                                       THEN buf[i - lo] ELSE data_block[i]]
                  IN  write_at_loop(drop_handle(modify(g.m, g.h, new_block), g.h),
                                    disk_inode, end_cur, end,
                                    SubSeq(buf, n + 1, Len(buf)))

DiskInode_write_at(m, disk_inode, offset, buf) ==
    LET end == IF offset + Len(buf) < disk_inode.size
               THEN offset + Len(buf) ELSE disk_inode.size
    IN  IF offset > end THEN [m EXCEPT !.panicked = TRUE]
        ELSE write_at_loop(m, disk_inode, offset, end, buf)

\* Option::unwrap of the result of Bitmap::alloc: None stops the kernel.
unwrap(r) ==
    IF r.m.panicked \/ r.pos # None THEN r
    ELSE [m |-> [r.m EXCEPT !.panicked = TRUE], pos |-> None]

\* EasyFileSystem::alloc_inode: inode_bitmap.alloc(..).unwrap()
alloc_inode(m) == unwrap(alloc(InodeBitmap, m))

\* The block id in the data area of the bit the data bitmap gave.
data_block_id(r) ==
    IF r.pos = None THEN r
    ELSE [m |-> r.m, pos |-> Some(r.pos[1] + data_area_start_block)]

\* EasyFileSystem::alloc_data: data_bitmap.alloc(..).unwrap() as the block
\* id of the data area.
alloc_data(m) == data_block_id(unwrap(alloc(DataBitmap, m)))

\* ------------------------------------------------------------- vfs
\* An Inode handle is the position of its DiskInode: block_id, block_offset.
\* Every operation takes the manager record m and returns the manager after
\* it and the operation's result.  An operation is a chain of steps, each
\* step a definition that takes the result of the step before it.

\* The DiskInode a handle on block block_id sees at block_offset.
disk_inode_at(m, self) ==
    m.queue[find_pair(m.queue, self.block_id)].cache[self.block_offset + 1]

\* The closure of modify_disk_inode stores through its &mut DiskInode.
store_disk_inode(m, self, disk_inode) ==
    LET h == find_pair(m.queue, self.block_id)
    IN  modify(m, h, [m.queue[h].cache EXCEPT ![self.block_offset + 1] = disk_inode])

\* The end of read_disk_inode and modify_disk_inode: the Arc of the inode's
\* block is dropped, unless a panic has stopped the kernel.
release_never(m, self) == m
release(m, self) == IF m.panicked THEN m ELSE unpin(m, self.block_id)

\* Inode::find_inode_id: the loop over the directory entries; r is what
\* read_at returned for entry i.
RECURSIVE find_inode_id_loop(_, _, _, _, _)
find_inode_id_entry(r, name, disk_inode, i, file_count) ==
    IF r.m.panicked THEN [m |-> r.m, ret |-> None]
    ELSE IF Len(r.buf) # DIRENT_SZ
    THEN [m |-> [r.m EXCEPT !.panicked = TRUE], ret |-> None]
    ELSE IF DirEntry_name(r.buf) = name
    THEN [m |-> r.m, ret |-> Some(DirEntry_inode_id(r.buf))]
    ELSE find_inode_id_loop(r.m, name, disk_inode, i + 1, file_count)

find_inode_id_loop(m, name, disk_inode, i, file_count) ==
    IF i >= file_count THEN [m |-> m, ret |-> None]
    ELSE find_inode_id_entry(
             DiskInode_read_at(m, disk_inode, DIRENT_SZ * i, DIRENT_SZ),
             name, disk_inode, i, file_count)

\* Inode::find_inode_id
find_inode_id(m, name, disk_inode) ==
    IF ~is_dir(disk_inode) THEN [m |-> [m EXCEPT !.panicked = TRUE], ret |-> None]
    ELSE find_inode_id_loop(m, name, disk_inode, 0, disk_inode.size \div DIRENT_SZ)

\* The closure op, called by read_disk_inode with the inode's block held
\* through g.
op_closure(g, self, name) ==
    IF g.m.panicked THEN [m |-> g.m, ret |-> None]
    ELSE find_inode_id(g.m, name, disk_inode_at(g.m, self))

\* The return of read_disk_inode(op) with f the closure's result.
op_return(f, self) == [m |-> release(f.m, self), ret |-> f.ret]

\* self.read_disk_inode(op), op the lookup of name in self.
op(m, self, name) ==
    op_return(op_closure(get_block_cache(m, self.block_id), self, name), self)

\* Inode::find: the handle made of the inode id found.
find_map(r) ==
    [m |-> r.m,
     ret |-> IF r.ret = None THEN None ELSE Some(get_disk_inode_pos(r.ret[1]))]

\* Inode::find
find(m, self, name) == find_map(op(m, self, name))

\* Inode::increase_size: the loop that allocates the data blocks; a is what
\* alloc_data returned.
RECURSIVE alloc_data_loop(_, _, _)
alloc_data_push(a, blocks_needed, v) ==
    IF a.m.panicked THEN [m |-> a.m, v |-> v]
    ELSE alloc_data_loop(a.m, blocks_needed - 1, Append(v, a.pos[1]))

alloc_data_loop(m, blocks_needed, v) ==
    IF blocks_needed = 0 THEN [m |-> m, v |-> v]
    ELSE alloc_data_push(alloc_data(m), blocks_needed, v)

\* Inode::increase_size: disk_inode.increase_size(new_size, v, ..) with a
\* the blocks allocated.
increase_size_grow(a, new_size, disk_inode) ==
    IF a.m.panicked THEN [m |-> a.m, disk_inode |-> disk_inode]
    ELSE [m |-> a.m,
          disk_inode |-> DiskInode_increase_size(disk_inode, new_size, a.v)]

\* Inode::increase_size
increase_size(m, new_size, disk_inode) ==
    IF new_size < disk_inode.size THEN [m |-> m, disk_inode |-> disk_inode]
    ELSE increase_size_grow(
             alloc_data_loop(m, blocks_num_needed(disk_inode, new_size), <<>>),
             new_size, disk_inode)

\* self.modify_disk_inode(|root_inode| ..) of create and link: the write of
\* dirent in the new last place, inc the result of increase_size.
append_dirent_write(inc, self, dirent, file_count) ==
    IF inc.m.panicked THEN inc.m
    ELSE release(DiskInode_write_at(store_disk_inode(inc.m, self, inc.disk_inode),
                                    inc.disk_inode, file_count * DIRENT_SZ, dirent),
                 self)

\* The closure with the directory's block held through g: the directory
\* grows by one entry.
append_dirent_closure(g, self, dirent) ==
    IF g.m.panicked THEN g.m
    ELSE LET root_inode == disk_inode_at(g.m, self)
             file_count == root_inode.size \div DIRENT_SZ
             new_size == (file_count + 1) * DIRENT_SZ
         IN  append_dirent_write(
                 increase_size(store_disk_inode(g.m, self, root_inode),
                               new_size, root_inode),
                 self, dirent, file_count)

\* self.modify_disk_inode(|root_inode| ..) of create and link
append_dirent_no_grow(m, self, dirent) ==
    LET g == get_block_cache(m, self.block_id)
    IN  append_dirent_write([m |-> g.m, disk_inode |-> disk_inode_at(g.m, self)],
                            self, dirent,
                            disk_inode_at(g.m, self).size \div DIRENT_SZ)
append_dirent(m, self, dirent) ==
    append_dirent_closure(get_block_cache(m, self.block_id), self, dirent)

\* Inode::create: block_cache_sync_all and the handle returned, m the
\* manager after the entry was appended.
create_return(m, new_inode_id) ==
    IF m.panicked THEN [m |-> m, ret |-> None]
    ELSE [m |-> block_cache_sync_all(m),
          ret |-> Some(get_disk_inode_pos(new_inode_id))]

\* Inode::create: the new inode is initialised in its block, held through
\* g, and entered in the directory.
create_initialize(g, self, name, new_inode_id) ==
    IF g.m.panicked THEN [m |-> g.m, ret |-> None]
    ELSE LET pos == get_disk_inode_pos(new_inode_id)
         IN  create_return(
                 append_dirent(
                     release(store_disk_inode(g.m, pos, DiskInode_initialize("File")),
                             pos),
                     self, DirEntry_new(name, new_inode_id)),
                 new_inode_id)

\* Inode::create from fs.alloc_inode() on, a its result.
create_new_file(a, self, name) ==
    IF a.m.panicked THEN [m |-> a.m, ret |-> None]
    ELSE create_initialize(
             get_block_cache(a.m, get_disk_inode_pos(a.pos[1]).block_id),
             self, name, a.pos[1])

\* Inode::create after the lookup of name, r its result.
create_checked(r, self, name) ==
    IF r.m.panicked \/ r.ret # None THEN [m |-> r.m, ret |-> None]
    ELSE create_new_file(alloc_inode(r.m), self, name)

\* Inode::create
create_no_check(m, self, name) == create_new_file(alloc_inode(m), self, name)
create(m, self, name) == create_checked(op(m, self, name), self, name)

\* Inode::link: the handle returned, m the manager after the entry was
\* appended.
link_return(m, new_inode_id) ==
    IF m.panicked THEN [m |-> m, ret |-> None]
    ELSE [m |-> m, ret |-> Some(get_disk_inode_pos(new_inode_id))]

\* Inode::link after the lookup of old, r its result.
link_found(r, self, new) ==
    IF r.m.panicked \/ r.ret = None THEN [m |-> r.m, ret |-> None]
    ELSE link_return(append_dirent(r.m, self, DirEntry_new(new, r.ret[1])),
                     r.ret[1])

\* Inode::link
link(m, self, old, new) == link_found(op(m, self, old), self, new)

\* Inode::unlink: entry i is overwritten by the last entry, which sw read,
\* and the size drops by one entry.
unlink_swap_no_shrink(sw, root_inode, i) ==
    [m |-> IF sw.m.panicked THEN sw.m
           ELSE DiskInode_write_at(sw.m, root_inode, DIRENT_SZ * i, sw.buf),
     disk_inode |-> root_inode]
unlink_swap(sw, root_inode, i) ==
    [m |-> IF sw.m.panicked THEN sw.m
           ELSE DiskInode_write_at(sw.m, root_inode, DIRENT_SZ * i, sw.buf),
     disk_inode |-> [root_inode EXCEPT !.size = @ - DIRENT_SZ]]

\* Inode::unlink: the loop of the closure; r is what read_at returned for
\* entry i.  The first entry called name is the one removed.
RECURSIVE unlink_loop(_, _, _, _, _)
unlink_entry(r, name, root_inode, i, file_count) ==
    IF r.m.panicked THEN [m |-> r.m, disk_inode |-> root_inode]
    ELSE IF Len(r.buf) = DIRENT_SZ /\ DirEntry_name(r.buf) = name
    THEN unlink_swap(DiskInode_read_at(r.m, root_inode,
                                       DIRENT_SZ * (file_count - 1), DIRENT_SZ),
                     root_inode, i)
    ELSE unlink_loop(r.m, name, root_inode, i + 1, file_count)

unlink_loop(m, name, root_inode, i, file_count) ==
    IF i >= file_count THEN [m |-> m, disk_inode |-> root_inode]
    ELSE unlink_entry(DiskInode_read_at(m, root_inode, DIRENT_SZ * i, DIRENT_SZ),
                      name, root_inode, i, file_count)

\* Inode::unlink: the end of modify_disk_inode, u the closure's result.
unlink_return(u, self) ==
    IF u.m.panicked THEN [m |-> u.m, ret |-> -1]
    ELSE [m |-> release(store_disk_inode(u.m, self, u.disk_inode), self),
          ret |-> 0]

\* Inode::unlink: the closure with the directory's block held through g.
unlink_closure(g, self, name) ==
    IF g.m.panicked THEN [m |-> g.m, ret |-> -1]
    ELSE LET root_inode == disk_inode_at(g.m, self)
         IN  unlink_return(
                 unlink_loop(store_disk_inode(g.m, self, root_inode), name,
                             root_inode, 0, root_inode.size \div DIRENT_SZ),
                 self)

\* Inode::unlink after the lookup of name, r its result.
unlink_found(r, self, name) ==
    IF r.m.panicked \/ r.ret = None THEN [m |-> r.m, ret |-> -1]
    ELSE unlink_closure(get_block_cache(r.m, self.block_id), self, name)

\* Inode::unlink
unlink_reclaim(m, self, name) ==
    LET r == op(m, self, name)
    IN  IF r.m.panicked \/ r.ret = None THEN [m |-> r.m, ret |-> -1]
        ELSE unlink_found([m |-> dealloc(InodeBitmap, r.m, r.ret[1]), ret |-> r.ret],
                          self, name)
unlink(m, self, name) == unlink_found(op(m, self, name), self, name)

\* Inode::ls: the loop over the entries; r is what read_at returned for
\* entry i, v the names pushed so far.
RECURSIVE ls_loop(_, _, _, _, _)
ls_entry(r, disk_inode, i, file_count, v) ==
    IF r.m.panicked THEN [m |-> r.m, ret |-> v]
    ELSE IF Len(r.buf) # DIRENT_SZ
    THEN [m |-> [r.m EXCEPT !.panicked = TRUE], ret |-> v]
    ELSE ls_loop(r.m, disk_inode, i + 1, file_count, Append(v, DirEntry_name(r.buf)))

ls_loop(m, disk_inode, i, file_count, v) ==
    IF i >= file_count THEN [m |-> m, ret |-> v]
    ELSE ls_entry(DiskInode_read_at(m, disk_inode, i * DIRENT_SZ, DIRENT_SZ),
                  disk_inode, i, file_count, v)

\* Inode::ls: the closure with the directory's block held through g.
ls_closure(g, self) ==
    IF g.m.panicked THEN [m |-> g.m, ret |-> <<>>]
    ELSE ls_loop(g.m, disk_inode_at(g.m, self), 0,
                 disk_inode_at(g.m, self).size \div DIRENT_SZ, <<>>)

\* Inode::ls
ls(m, self) == op_return(ls_closure(get_block_cache(m, self.block_id), self), self)

\* Inode::get_link_num: the loop over the entries; r is what read_at
\* returned for entry i, count the entries counted so far.
RECURSIVE get_link_num_loop(_, _, _, _, _, _)
get_link_num_entry(r, root_inode, i, file_count, addr, count) ==
    IF r.m.panicked THEN [m |-> r.m, ret |-> count]
    ELSE IF Len(r.buf) # DIRENT_SZ
    THEN [m |-> [r.m EXCEPT !.panicked = TRUE], ret |-> count]
    ELSE get_link_num_loop(
             r.m, root_inode, i + 1, file_count, addr,
             IF get_disk_inode_pos(DirEntry_inode_id(r.buf)) = addr
             THEN count + 1 ELSE count)

get_link_num_loop(m, root_inode, i, file_count, addr, count) ==
    IF i >= file_count THEN [m |-> m, ret |-> count]
    ELSE get_link_num_entry(
             DiskInode_read_at(m, root_inode, DIRENT_SZ * i, DIRENT_SZ),
             root_inode, i, file_count, addr, count)

\* Inode::get_link_num: the closure with the directory's block held
\* through g.
get_link_num_closure(g, self, addr) ==
    IF g.m.panicked THEN [m |-> g.m, ret |-> 0]
    ELSE get_link_num_loop(g.m, disk_inode_at(g.m, self), 0,
                           disk_inode_at(g.m, self).size \div DIRENT_SZ, addr, 0)

\* Inode::get_link_num, addr the pair (block_id, block_offset)
get_link_num(m, self, addr) ==
    op_return(get_link_num_closure(get_block_cache(m, self.block_id), self, addr),
              self)

\* Inode::read_at: the closure with the inode's block held through g; the
\* result is the bytes copied into buf.
read_at_closure(g, self, offset, len) ==
    IF g.m.panicked THEN [m |-> g.m, buf |-> <<>>]
    ELSE DiskInode_read_at(g.m, disk_inode_at(g.m, self), offset, len)

\* Inode::read_at: the return of read_disk_inode.
read_at_return(r, self) == [m |-> release(r.m, self), ret |-> r.buf]

\* Inode::read_at for a buf of len bytes
read_at(m, self, offset, len) ==
    read_at_return(
        read_at_closure(get_block_cache(m, self.block_id), self, offset, len), self)

\* Inode::write_at: block_cache_sync_all and the count returned, m the
\* manager after the closure, size the bytes DiskInode::write_at wrote.
write_at_return_no_sync(m, self, size) ==
    IF m.panicked THEN [m |-> m, ret |-> 0]
    ELSE [m |-> release(m, self), ret |-> size]
write_at_return(m, self, size) ==
    IF m.panicked THEN [m |-> m, ret |-> 0]
    ELSE [m |-> block_cache_sync_all(release(m, self)), ret |-> size]

\* Inode::write_at: disk_inode.write_at(offset, buf, ..) with inc the result
\* of increase_size; it writes the bytes of buf below the inode's size.
write_at_write(inc, self, offset, buf) ==
    IF inc.m.panicked THEN [m |-> inc.m, ret |-> 0]
    ELSE write_at_return(
             DiskInode_write_at(store_disk_inode(inc.m, self, inc.disk_inode),
                                inc.disk_inode, offset, buf),
             self,
             (IF offset + Len(buf) < inc.disk_inode.size
              THEN offset + Len(buf) ELSE inc.disk_inode.size) - offset)

\* Inode::write_at: the closure with the inode's block held through g.
write_at_closure(g, self, offset, buf) ==
    IF g.m.panicked THEN [m |-> g.m, ret |-> 0]
    ELSE write_at_write(
             increase_size(store_disk_inode(g.m, self, disk_inode_at(g.m, self)),
                           offset + Len(buf), disk_inode_at(g.m, self)),
             self, offset, buf)

\* Inode::write_at
write_at_no_grow(m, self, offset, buf) ==
    LET g == get_block_cache(m, self.block_id)
    IN  write_at_write([m |-> store_disk_inode(g.m, self, disk_inode_at(g.m, self)),
                        disk_inode |-> disk_inode_at(g.m, self)],
                       self, offset, buf)
write_at(m, self, offset, buf) ==
    write_at_closure(get_block_cache(m, self.block_id), self, offset, buf)

\* DiskInode::clear_size: the data blocks the size addresses are detached
\* and returned, the size is 0.
DiskInode_clear_size(disk_inode) ==
    LET data_blocks == total_blocks(disk_inode.size)
    IN  [disk_inode |-> [disk_inode EXCEPT
                            !.size = 0,
                            !.direct = [i \in 1..data_area_blocks |->
                                           IF i <= data_blocks THEN 0 ELSE @[i]]],
         v |-> [i \in 1..data_blocks |-> disk_inode.direct[i]]]

\* EasyFileSystem::dealloc_data: the bit of the data bitmap for block_id is
\* freed.
dealloc_data(m, block_id) == dealloc(DataBitmap, m, block_id - data_area_start_block)

\* Inode::clear: the loop that frees the blocks clear_size returned.
RECURSIVE dealloc_data_loop(_, _, _)
dealloc_data_loop(m, data_blocks_dealloc, i) ==
    IF m.panicked \/ i > Len(data_blocks_dealloc) THEN m
    ELSE dealloc_data_loop(dealloc_data(m, data_blocks_dealloc[i]),
                           data_blocks_dealloc, i + 1)

\* Inode::clear: the end of modify_disk_inode and block_cache_sync_all.
clear_return(m, self) ==
    IF m.panicked THEN m ELSE block_cache_sync_all(release(m, self))

\* Inode::clear: the closure on the inode its block holds, c what clear_size
\* returned for it.
clear_no_dealloc(m, self, size, c) ==
    IF Len(c.v) # total_blocks(size) THEN [m EXCEPT !.panicked = TRUE]
    ELSE clear_return(store_disk_inode(m, self, c.disk_inode), self)
clear_dealloc(m, self, size, c) ==
    IF Len(c.v) # total_blocks(size) THEN [m EXCEPT !.panicked = TRUE]
    ELSE clear_return(
             dealloc_data_loop(store_disk_inode(m, self, c.disk_inode), c.v, 1),
             self)

\* Inode::clear: the closure with the inode's block held through g.
clear_closure(g, self) ==
    IF g.m.panicked THEN g.m
    ELSE clear_dealloc(g.m, self, disk_inode_at(g.m, self).size,
                       DiskInode_clear_size(disk_inode_at(g.m, self)))

\* Inode::clear
clear(m, self) == clear_closure(get_block_cache(m, self.block_id), self)

\* ------------------------------------------------------------- filesystem
\* The inode ids of the inode bitmap.
InodeIds == 0..(maximum(InodeBitmap) - 1)

\* The root directory's handle: inode 0.
Root == get_disk_inode_pos(0)

\* The device after EasyFileSystem::create: the layout in block 0, inode 0
\* allocated and initialised as the root directory, everything else zero.
SuperBlock ==
    <<InodeBitmap.blocks, inode_area_blocks, DataBitmap.blocks, data_area_blocks>>
ZeroInodes == [i \in 1..INODES_PER_BLOCK |-> DiskInode_initialize("File")]
ZeroData == [i \in 1..BLOCK_SZ |-> 0]
FreshDisk ==
    [b \in FsBlocks |->
        IF b = 0 THEN SuperBlock
        ELSE IF b = InodeBitmap.start_block_id
        THEN [ZeroBlock EXCEPT ![1] = OrBit(@, 0)]
        ELSE IF b = Root.block_id
        THEN [ZeroInodes EXCEPT ![Root.block_offset + 1] =
                                    DiskInode_initialize("Directory")]
        ELSE IF b < DataBitmap.start_block_id THEN ZeroInodes
        ELSE IF b < data_area_start_block THEN ZeroBlock
        ELSE ZeroData]

\* What a caller can observe of the directory self and of the allocators,
\* read through the cache.
Entries(m, self) ==
    LET disk_inode == Cached(m, self.block_id)[self.block_offset + 1]
    IN  [i \in 1..(disk_inode.size \div DIRENT_SZ) |->
            LET off == DIRENT_SZ * (i - 1)
                data_block == Cached(m, disk_inode.direct[(off \div BLOCK_SZ) + 1])
            IN  SubSeq(data_block, (off % BLOCK_SZ) + 1, (off % BLOCK_SZ) + DIRENT_SZ)]

\* The DiskInode of inode_id and the bytes below its size, read through the
\* cache.
InodeOf(m, inode_id) ==
    LET pos == get_disk_inode_pos(inode_id)
    IN  Cached(m, pos.block_id)[pos.block_offset + 1]

Content(m, inode_id) ==
    LET disk_inode == InodeOf(m, inode_id)
    IN  [k \in 1..disk_inode.size |->
            Cached(m, disk_inode.direct[((k - 1) \div BLOCK_SZ) + 1])
                [((k - 1) % BLOCK_SZ) + 1]]

\* The inodes handed out by create: every allocated inode but the root.
FileIds(m) == SetBits(InodeBitmap, m) \ {0}

Observed(m) ==
    [inode_bits |-> SetBits(InodeBitmap, m),
     data_bits |-> SetBits(DataBitmap, m),
     size |-> Cached(m, Root.block_id)[Root.block_offset + 1].size,
     entries |-> Entries(m, Root),
     files |-> [id \in FileIds(m) |->
                   [size |-> InodeOf(m, id).size, type_ |-> InodeOf(m, id).type_,
                    bytes |-> Content(m, id)]]]

\* name is the name of an entry of the observed directory
Present(obs, name) ==
    \E i \in 1..Len(obs.entries) : DirEntry_name(obs.entries[i]) = name

\* The kernel has opened the filesystem: block 0 was read through the cache.
InitVfs ==
    /\ disk = FreshDisk
    /\ queue = <<BlockCache_new([disk |-> FreshDisk], 0, 0)>>
    /\ orphans = <<>>
    /\ panicked = FALSE
    /\ last = [op |-> "init", arg |-> None, ret |-> None,
               pre |-> Observed([disk |-> FreshDisk, queue |-> <<>>])]
    /\ run = [ops |-> 0]
    /\ written = FreshDisk

\* One call on the root directory; last records the call, its result and
\* what was observable before it.
Called(name, arg, r) ==
    /\ SetSt(r.m)
    /\ last' = [op |-> name, arg |-> arg, ret |-> r.ret, pre |-> Observed(St)]
    /\ run' = [run EXCEPT !.ops = @ + 1]
    /\ UNCHANGED written

Find(name) ==
    /\ ~panicked /\ run.ops < MaxOps
    /\ Called("find", <<name>>, find(St, Root, name))

Create(name) ==
    /\ ~panicked /\ run.ops < MaxOps
    /\ Called("create", <<name>>, create(St, Root, name))

Link(old, new) ==
    /\ ~panicked /\ run.ops < MaxOps
    /\ Called("link", <<old, new>>, link(St, Root, old, new))

Unlink(name) ==
    /\ ~panicked /\ run.ops < MaxOps
    /\ Called("unlink", <<name>>, unlink(St, Root, name))

Ls ==
    /\ ~panicked /\ run.ops < MaxOps
    /\ Called("ls", None, ls(St, Root))

GetLinkNum(inode_id) ==
    /\ ~panicked /\ run.ops < MaxOps
    /\ inode_id \in FileIds(St)
    /\ Called("get_link_num", <<inode_id>>,
              get_link_num(St, Root, get_disk_inode_pos(inode_id)))

NextVfs ==
    \/ \E name \in Names : Find(name)
    \/ \E name \in Names : Create(name)
    \/ \E old \in Names, new \in Names : Link(old, new)
    \/ \E name \in Names : Unlink(name)
    \/ Ls
    \/ \E inode_id \in InodeIds : GetLinkNum(inode_id)

SpecVfs == InitVfs /\ [][NextVfs]_vars

\* The bytes of the write that is call number run.ops + 1: no two writes
\* of a run write the same byte.
Stamp(len) == [i \in 1..len |-> 10 * (run.ops + 1) + i]

ReadAt(inode_id, offset, len) ==
    /\ ~panicked /\ run.ops < MaxOps
    /\ inode_id \in FileIds(St)
    /\ Called("read_at", <<inode_id, offset, len>>,
              read_at(St, get_disk_inode_pos(inode_id), offset, len))

WriteAt(inode_id, offset, len) ==
    /\ ~panicked /\ run.ops < MaxOps
    /\ inode_id \in FileIds(St)
    /\ Called("write_at", <<inode_id, offset, Stamp(len)>>,
              write_at(St, get_disk_inode_pos(inode_id), offset, Stamp(len)))

Clear(inode_id) ==
    /\ ~panicked /\ run.ops < MaxOps
    /\ inode_id \in FileIds(St)
    /\ Called("clear", <<inode_id>>,
              [m |-> clear(St, get_disk_inode_pos(inode_id)), ret |-> None])

\* The offsets of the calls: the start of a file, the last byte of its
\* first block and the start of its second block; the lengths of their
\* buffers: empty, one byte, and long enough to cross into the next block.
Offsets == {0, BLOCK_SZ - 1, BLOCK_SZ}
Lens == {0, 1, MaxLen}

\* The calls on the files of the root directory, through the handles that
\* create returned.
NextFile ==
    \/ \E name \in Names : Create(name)
    \/ \E old \in Names, new \in Names : Link(old, new)
    \/ \E name \in Names : Unlink(name)
    \/ \E inode_id \in InodeIds, offset \in Offsets, len \in Lens :
          WriteAt(inode_id, offset, len)
    \/ \E inode_id \in InodeIds, offset \in Offsets :
          ReadAt(inode_id, offset, MaxLen)
    \/ \E inode_id \in InodeIds : Clear(inode_id)

SpecFile == InitVfs /\ [][NextFile]_vars

\* ------------------------------------------------------------- vfs claims
\* C10: a lookup that fails is an ordinary result and changes nothing.  find
\* of an absent name returns None, create of a present name returns None,
\* unlink of an absent name returns -1 and link from an absent name returns
\* None; the kernel has not panicked, the set inode bits, the set data bits,
\* the directory's size and its entries are those before the call.
C10_NotFoundRecoverable ==
    /\ (last.op = "find" /\ ~Present(last.pre, last.arg[1]))
          => last.ret = None /\ ~panicked /\ Observed(St) = last.pre
    /\ (last.op = "create" /\ Present(last.pre, last.arg[1]))
          => last.ret = None /\ ~panicked /\ Observed(St) = last.pre
    /\ (last.op = "unlink" /\ ~Present(last.pre, last.arg[1]))
          => last.ret = -1 /\ ~panicked /\ Observed(St) = last.pre
    /\ (last.op = "link" /\ ~Present(last.pre, last.arg[1]))
          => last.ret = None /\ ~panicked /\ Observed(St) = last.pre

\* C10 witness: create was called with a name the directory, which holds two
\* entries, already had.
C10_Witness ==
    /\ last.op = "create" /\ Present(last.pre, last.arg[1])
    /\ Len(last.pre.entries) = 2
    /\ last.ret = None

\* The names of the observed directory, in storage order.
NamesOf(obs) == [i \in 1..Len(obs.entries) |-> DirEntry_name(obs.entries[i])]

\* C11: create of a name the directory does not hold, once it has returned:
\* exactly one inode id is newly allocated, that inode is a File of size 0,
\* the directory's entries are the previous ones followed by (name, new
\* id), ls() is the previous list of names followed by name, and find(name)
\* gives the address create returned.
C11_CreateAppends ==
    (last.op = "create" /\ ~Present(last.pre, last.arg[1]) /\ ~panicked) =>
        LET obs == Observed(St)
            name == last.arg[1]
        IN  /\ last.ret # None
            /\ \E id \in InodeIds \ last.pre.inode_bits :
                  /\ obs.inode_bits = last.pre.inode_bits \cup {id}
                  /\ last.ret = Some(get_disk_inode_pos(id))
                  /\ obs.files[id] = [size |-> 0, type_ |-> "File", bytes |-> <<>>]
                  /\ obs.entries = Append(last.pre.entries, DirEntry_new(name, id))
            /\ obs.size = last.pre.size + DIRENT_SZ
            /\ ls(St, Root).ret = Append(NamesOf(last.pre), name)
            /\ find(St, Root, name).ret = last.ret

\* C11 witness: create has returned a handle for a name that was absent
\* from a directory that held an entry and had lost another to unlink.
C11_Witness ==
    /\ last.op = "create" /\ ~Present(last.pre, last.arg[1]) /\ ~panicked
    /\ last.ret # None
    /\ Len(last.pre.entries) = 1
    /\ Cardinality(last.pre.inode_bits) = 3

\* The inode id find resolves name to in the observed directory: that of
\* the first entry called name.
FirstId(obs, name) ==
    DirEntry_inode_id(
        obs.entries[Min({i \in 1..Len(obs.entries) :
                            DirEntry_name(obs.entries[i]) = name})])

\* The entries of the observed directory that carry inode_id.
Links(obs, inode_id) ==
    Cardinality({i \in 1..Len(obs.entries) :
                    DirEntry_inode_id(obs.entries[i]) = inode_id})

\* C12: link(old, new) with old present, once it has returned: one entry
\* (new, id of old) is appended, the inode bitmap is unchanged, the handle
\* returned has the address find(old) had, and afterwards find(new) and
\* find(old) give the same address.
C12_LinkSameInode ==
    (last.op = "link" /\ Present(last.pre, last.arg[1]) /\ ~panicked) =>
        LET obs == Observed(St)
            id == FirstId(last.pre, last.arg[1])
        IN  /\ obs.entries = Append(last.pre.entries, DirEntry_new(last.arg[2], id))
            /\ obs.inode_bits = last.pre.inode_bits
            /\ last.ret = Some(get_disk_inode_pos(id))
            /\ find(St, Root, last.arg[2]).ret = find(St, Root, last.arg[1]).ret

\* C13: link accounting.  get_link_num(addr) is the number of entries whose
\* inode id maps to addr; it is 1 for the inode of a create that returned,
\* one more for the inode of old after a link(old, _) that returned, and
\* one less for every inode that had an entry called name after an
\* unlink(name) that returned 0.
C13_LinkAccounting ==
    /\ (last.op = "get_link_num" /\ ~panicked)
          => last.ret = Links(last.pre, last.arg[1])
    /\ (last.op = "create" /\ last.ret # None /\ ~panicked)
          => \A id \in InodeIds \ last.pre.inode_bits :
                id \in FileIds(St) =>
                    get_link_num(St, Root, get_disk_inode_pos(id)).ret = 1
    /\ (last.op = "link" /\ last.ret # None /\ ~panicked)
          => LET id == FirstId(last.pre, last.arg[1])
             IN  get_link_num(St, Root, get_disk_inode_pos(id)).ret
                     = Links(last.pre, id) + 1
    /\ (last.op = "unlink" /\ last.ret = 0 /\ ~panicked)
          => \A i \in 1..Len(last.pre.entries) :
                DirEntry_name(last.pre.entries[i]) = last.arg[1] =>
                    LET id == DirEntry_inode_id(last.pre.entries[i])
                    IN  get_link_num(St, Root, get_disk_inode_pos(id)).ret
                            = Links(last.pre, id) - 1

\* The observed entries after the first entry called name was overwritten
\* by the last entry and the last place was given up.
SwapRemoved(entries, name) ==
    LET i == Min({k \in 1..Len(entries) : DirEntry_name(entries[k]) = name})
        n == Len(entries)
    IN  [k \in 1..(n - 1) |-> IF k = i THEN entries[n] ELSE entries[k]]

\* C14: an unlink(name) that returned 0: the directory holds one entry
\* less and is one record shorter, the first entry called name was
\* overwritten by the last entry, nothing else moved, and every other name
\* the directory had resolves to the inode id it resolved to before.
C14_UnlinkDensity ==
    (last.op = "unlink" /\ last.ret = 0 /\ ~panicked) =>
        LET obs == Observed(St)
        IN  /\ Len(obs.entries) = Len(last.pre.entries) - 1
            /\ obs.size = last.pre.size - DIRENT_SZ
            /\ obs.entries = SwapRemoved(last.pre.entries, last.arg[1])
            /\ \A n \in Names \ {last.arg[1]} :
                  Present(last.pre, n) =>
                      find(St, Root, n).ret
                          = Some(get_disk_inode_pos(FirstId(last.pre, n)))

\* ------------------------------------------------------------- file claims
\* C15: an unlink(name) that returned 0 reclaims nothing: the set inode
\* bits and the set data bits are those before the call, every file inode
\* has the size, type and bytes it had, the inode the name resolved to
\* included, and read_at through a handle returns those bytes.
C15_UnlinkNoReclaim ==
    (last.op = "unlink" /\ last.ret = 0 /\ ~panicked) =>
        LET obs == Observed(St)
        IN  /\ obs.inode_bits = last.pre.inode_bits
            /\ obs.data_bits = last.pre.data_bits
            /\ obs.files = last.pre.files
            /\ \A id \in DOMAIN last.pre.files :
                  read_at(St, get_disk_inode_pos(id), 0, last.pre.files[id].size).ret
                      = last.pre.files[id].bytes

\* C15 witness: the name unlinked was the only name of a file that holds
\* bytes.
C15_Witness ==
    /\ last.op = "unlink" /\ last.ret = 0 /\ ~panicked
    /\ LET id == FirstId(last.pre, last.arg[1])
       IN  /\ Links(last.pre, id) = 1
           /\ last.pre.files[id].size > 0

\* C16: a write_at(offset, buf) that has returned: read_at(offset, ..) with
\* a buffer as long as buf returns buf, the inode's size is the larger of
\* the previous size and offset + |buf|, and the bytes below the previous
\* size and outside [offset, offset + |buf|) are those before the call.
C16_WriteGrow ==
    (last.op = "write_at" /\ ~panicked) =>
        LET id == last.arg[1]
            offset == last.arg[2]
            buf == last.arg[3]
            was == last.pre.files[id]
            now == Observed(St).files[id]
        IN  /\ read_at(St, get_disk_inode_pos(id), offset, Len(buf)).ret = buf
            /\ now.size = IF was.size > offset + Len(buf)
                          THEN was.size ELSE offset + Len(buf)
            /\ \A k \in 1..was.size :
                  (k - 1 < offset \/ k - 1 >= offset + Len(buf))
                      => now.bytes[k] = was.bytes[k]

\* C16 witness: a write that starts in the last byte of the first block of
\* a file that holds bytes, and ends in the second block, beyond the
\* previous size.
C16_Witness ==
    /\ last.op = "write_at" /\ ~panicked
    /\ last.arg[2] = BLOCK_SZ - 1 /\ Len(last.arg[3]) = MaxLen
    /\ last.pre.files[last.arg[1]].size > 0
    /\ last.pre.files[last.arg[1]].size < BLOCK_SZ - 1 + MaxLen

\* C17: when write_at has returned no entry of the cache is dirty: the
\* device holds the content of every resident block.
C17_WriteDurable ==
    (last.op = "write_at" /\ ~panicked) =>
        /\ orphans = <<>>
        /\ \A i \in 1..Len(queue) :
              ~queue[i].modified /\ disk[queue[i].block_id] = queue[i].cache

\* C17 witness: a write_at that allocated a data block, so that it touched
\* the data bitmap, the inode and the data block, has returned.
C17_Witness ==
    /\ last.op = "write_at" /\ ~panicked
    /\ Observed(St).data_bits # last.pre.data_bits
    /\ Len(last.arg[3]) > 0

\* No entry of the cache is dirty: the device holds the content of every
\* resident block.
Flushed ==
    \A i \in 1..Len(queue) :
        ~queue[i].modified /\ disk[queue[i].block_id] = queue[i].cache

\* C18: when create, link, unlink, write_at or clear has returned after a
\* mutation (create and link a handle, unlink 0), the device holds the
\* content of every block the call modified: no entry is dirty.
C18_MutationsFlushed ==
    (/\ ~panicked
     /\ \/ last.op \in {"create", "link"} /\ last.ret # None
        \/ last.op = "unlink" /\ last.ret = 0
        \/ last.op \in {"write_at", "clear"})
        => Flushed

\* C19: clear() of an inode of size S stops no kernel, frees exactly
\* total_blocks(S) bits of the data bitmap and sets none, and leaves the
\* size 0; and an inode of size 0 keeps size 0 under every call that is
\* not a write_at to it, and read_at on it returns no byte at any offset.
C19_ClearCorrect ==
    /\ last.op = "clear" =>
          LET obs == Observed(St)
              id == last.arg[1]
          IN  /\ ~panicked
              /\ obs.data_bits \subseteq last.pre.data_bits
              /\ Cardinality(last.pre.data_bits \ obs.data_bits)
                     = total_blocks(last.pre.files[id].size)
              /\ obs.files[id].size = 0
    /\ (~panicked /\ last.op # "init") =>
          \A id \in DOMAIN last.pre.files :
              (/\ last.op = "clear" => last.arg[1] = id
               /\ last.op # "clear" => last.pre.files[id].size = 0
               /\ last.op = "write_at" => last.arg[1] # id)
                  => /\ Observed(St).files[id].size = 0
                     /\ \A offset \in 0..(BLOCK_SZ + MaxLen) :
                           read_at(St, get_disk_inode_pos(id), offset, MaxLen).ret
                               = <<>>

\* C19 witness: clear has returned on a file that held two data blocks.
C19_Witness ==
    /\ last.op = "clear" /\ ~panicked
    /\ total_blocks(last.pre.files[last.arg[1]].size) = 2

\* C20: no two entries of the directory carry the same name.
C20_NameUnique ==
    LET entries == Entries(St, Root)
    IN  \A i, j \in 1..Len(entries) :
            DirEntry_name(entries[i]) = DirEntry_name(entries[j]) => i = j

\* ------------------------------------------------------- block accounting
\* The data blocks an inode addresses: its direct slots below the count its
\* size requires, as (inode, slot) pairs with the block of the slot.
Addressed(m) ==
    {<<id, i>> \in SetBits(InodeBitmap, m) \X (1..data_area_blocks) :
        i <= total_blocks(InodeOf(m, id).size)}

BlockOf(m, a) == InodeOf(m, a[1]).direct[a[2]]

\* C21: a bit of the data bitmap is set exactly when one inode addresses its
\* block through one slot, and every inode addresses as many data blocks as
\* its size requires, also after the directory shrank by unlink and grew
\* again.
C21_BlockAccounting ==
    ~panicked =>
        /\ \A a \in Addressed(St) :
              BlockOf(St, a) - data_area_start_block \in SetBits(DataBitmap, St)
        /\ \A bit \in SetBits(DataBitmap, St) :
              Cardinality({a \in Addressed(St) :
                  BlockOf(St, a) = bit + data_area_start_block}) = 1

\* ------------------------------------------------------ end-to-end scenario
\* The two names of the scenario and the bytes it writes.
NameA == Min(Names)
NameB == Min(Names \ {NameA})
Hello == [i \in 1..MaxLen |-> 100 + i]

\* An empty mounted filesystem; run.step counts the calls of the scenario
\* made so far, run.a and run.b hold the handles create and find returned.
InitScenario ==
    /\ disk = FreshDisk
    /\ queue = <<BlockCache_new([disk |-> FreshDisk], 0, 0)>>
    /\ orphans = <<>>
    /\ panicked = FALSE
    /\ last = [op |-> "init", arg |-> None, ret |-> None,
               pre |-> Observed([disk |-> FreshDisk, queue |-> <<>>])]
    /\ run = [ops |-> 0, step |-> 0, a |-> None, b |-> None]
    /\ written = FreshDisk

\* Call number k of the scenario on the root directory and on the handles
\* it returned.
ScenarioCall(k) ==
    CASE k = 1 -> create(St, Root, NameA)
      [] k = 2 -> create(St, Root, NameA)
      [] k = 3 -> write_at(St, run.a[1], 0, Hello)
      [] k = 4 -> read_at(St, run.a[1], 0, Len(Hello))
      [] k = 5 -> link(St, Root, NameA, NameB)
      [] k = 6 -> get_link_num(St, Root, run.a[1])
      [] k = 7 -> unlink(St, Root, NameA)
      [] k = 8 -> find(St, Root, NameB)
      [] k = 9 -> read_at(St, run.b[1], 0, Len(Hello))
      [] k = 10 -> ls(St, Root)

\* The calls of the scenario, in order.
Scenario ==
    <<"create", "create", "write_at", "read_at", "link", "get_link_num",
      "unlink", "find", "read_at", "ls">>

Returned(k, r) ==
    /\ SetSt(r.m)
    /\ last' = [op |-> "step", arg |-> <<k>>, ret |-> r.ret, pre |-> Observed(St)]
    /\ run' = [run EXCEPT !.step = k,
                          !.a = IF k = 1 THEN r.ret ELSE @,
                          !.b = IF k = 8 THEN r.ret ELSE @]
    /\ UNCHANGED written

ScenarioStep ==
    /\ ~panicked /\ run.step < Len(Scenario)
    /\ Returned(run.step + 1, ScenarioCall(run.step + 1))

\* The scenario, with lookups and listings of the directory by the caller
\* between any two of its calls.
NextScenario ==
    \/ ScenarioStep
    \/ \E name \in Names : Find(name)
    \/ Ls

SpecScenario == InitScenario /\ [][NextScenario]_vars

\* C22: on an empty filesystem, create of a fresh name succeeds and a second
\* create of it returns None; the bytes written at offset 0 are read back;
\* after link the link count of the file is 2; after unlink of the first
\* name the second name resolves to the same inode, reads the same bytes, and
\* ls lists exactly the second name.
C22_Scenario ==
    last.op = "step" =>
        /\ ~panicked
        /\ last.arg[1] = 1 => last.ret # None
        /\ last.arg[1] = 2 => last.ret = None
        /\ last.arg[1] = 3 => last.ret = Len(Hello)
        /\ last.arg[1] = 4 => last.ret = Hello
        /\ last.arg[1] = 5 => last.ret # None
        /\ last.arg[1] = 6 => last.ret = 2
        /\ last.arg[1] = 7 => last.ret = 0
        /\ last.arg[1] = 8 => last.ret = run.a
        /\ last.arg[1] = 9 => last.ret = Hello
        /\ last.arg[1] = 10 => last.ret = <<NameB>>

\* C22 witness: the last call of the scenario has returned, with listings
\* and lookups made in between.
C22_Witness ==
    /\ last.op = "step" /\ last.arg[1] = Len(Scenario)
    /\ run.ops = MaxOps
    /\ run.a # None /\ run.b = run.a

\* C28: no sequence of Inode operations exhausts the pool.  An operation
\* holds the block of its inode and at most one other block at a time, so
\* a miss always finds an entry that only the queue refers to: the kernel
\* never stops in get_block_cache on a full pool of referenced entries, and
\* no operation that returned left a reference behind.
C28_NoPoolExhaustion ==
    /\ ~Exhausted
    /\ ~panicked => \A i \in 1..Len(queue) : queue[i].refs = 0

\* C28 witness: a write_at across a block boundary has returned; it went
\* through more blocks than the pool holds while it held the inode's block.
C28_Witness ==
    /\ last.op = "write_at" /\ ~panicked
    /\ last.arg[2] = BLOCK_SZ - 1 /\ last.ret = MaxLen
    /\ Len(queue) = BLOCK_CACHE_SIZE
    /\ Cardinality(Observed(St).data_bits \ last.pre.data_bits) = 2

\* ------------------------------------------------------------- locks
\* The Inode operations as the lock steps their code takes, for threads that
\* call them at the same time.  The three kinds of spin::Mutex are the
\* filesystem lock (self.fs.lock()), the lock of BLOCK_CACHE_MANAGER and the
\* lock of each BlockCache.  The pool is the one of the sections above; the
\* bytes the operations move are those of the filesystem section and are
\* left out here.
\*
\* run.code[t] is what thread t has left to execute, run.fs and run.manager
\* are the owners of the two global locks, run.entry[b] the owner of the lock
\* of the BlockCache of block b (0: free), run.todo[t] the entries the
\* sync_all of t has not visited yet, run.busy[t] whether the operation of t
\* has touched a block.

Threads == 1..MaxThreads
\* The upward caller that calls block_cache_sync_all on its own.
Syncer == MaxThreads + 1
AllThreads == 1..Syncer

Instr(k, b) == <<[k |-> k, b |-> b]>>

\* get_block_cache(block_id, ..).lock().read(.., f) / .modify(.., f): the
\* manager's lock for the call of get_block_cache, then the entry's lock for
\* the closure f; guard and Arc are temporaries of the statement.
lock_block(block_id, f) ==
    Instr("get", block_id) \o Instr("lock", block_id) \o f \o Instr("unlock", block_id)

\* Inode::read_disk_inode / Inode::modify_disk_inode
read_disk_inode(self, f) == lock_block(self.block_id, f)
modify_disk_inode(self, f) == lock_block(self.block_id, f)

\* DiskInode::read_at / write_at on one data block of the inode
data_block_locks == lock_block(data_area_start_block, <<>>)
\* Bitmap::alloc / Bitmap::dealloc on the first block of the bitmap
bitmap_locks(bm) == lock_block(bm.start_block_id, <<>>)
\* Inode::increase_size that needs a block, then DiskInode::write_at
grow_write_locks == bitmap_locks(DataBitmap) \o data_block_locks

\* Inode::find, ls and get_link_num: the scan of a directory of one block.
find_locks_no_fs(self) == read_disk_inode(self, data_block_locks)
find_locks_late_fs(self) ==
    read_disk_inode(self, Instr("fs_lock", 0) \o data_block_locks)
        \o Instr("fs_unlock", 0)
find_locks(self) ==
    Instr("fs_lock", 0) \o read_disk_inode(self, data_block_locks)
        \o Instr("fs_unlock", 0)

\* Inode::create of a name that is absent: the lookup, alloc_inode, the new
\* inode's initialisation, the append and block_cache_sync_all.
create_locks(self, new_inode_block_id) ==
    Instr("fs_lock", 0)
        \o read_disk_inode(self, data_block_locks)
        \o bitmap_locks(InodeBitmap)
        \o lock_block(new_inode_block_id, <<>>)
        \o modify_disk_inode(self, grow_write_locks)
        \o Instr("sync_all", 0) \o Instr("fs_unlock", 0)

\* Inode::link of a name that is present: the lookup and the append.
link_locks(self) ==
    Instr("fs_lock", 0)
        \o read_disk_inode(self, data_block_locks)
        \o modify_disk_inode(self, grow_write_locks)
        \o Instr("fs_unlock", 0)

\* Inode::unlink of a name that is present: the lookup, then the scan, the
\* read of the last entry and the overwrite.
unlink_locks(self) ==
    Instr("fs_lock", 0)
        \o read_disk_inode(self, data_block_locks)
        \o modify_disk_inode(self, data_block_locks \o data_block_locks
                                       \o data_block_locks)
        \o Instr("fs_unlock", 0)

\* Inode::read_at
read_at_locks(self) ==
    Instr("fs_lock", 0) \o read_disk_inode(self, data_block_locks)
        \o Instr("fs_unlock", 0)

\* Inode::write_at that grows the file, and Inode::clear of a file of one
\* block.
write_at_locks_sync_inside(self) ==
    Instr("fs_lock", 0)
        \o modify_disk_inode(self, grow_write_locks \o Instr("sync_all", 0))
        \o Instr("fs_unlock", 0)
write_at_locks(self) ==
    Instr("fs_lock", 0) \o modify_disk_inode(self, grow_write_locks)
        \o Instr("sync_all", 0) \o Instr("fs_unlock", 0)
clear_locks(self) ==
    Instr("fs_lock", 0) \o modify_disk_inode(self, bitmap_locks(DataBitmap))
        \o Instr("sync_all", 0) \o Instr("fs_unlock", 0)

\* The handles of the files: an inode in the block of the root directory
\* and one in the block after it.
Handles == {get_disk_inode_pos(1), get_disk_inode_pos(INODES_PER_BLOCK)}

\* The calls a thread makes: the directory operations on the root, the file
\* operations on the handles.
Calls ==
    {[op |-> "find", code |-> find_locks(Root)],
     [op |-> "ls", code |-> find_locks(Root)],
     [op |-> "get_link_num", code |-> find_locks(Root)],
     [op |-> "link", code |-> link_locks(Root)],
     [op |-> "unlink", code |-> unlink_locks(Root)]}
    \cup {[op |-> "create", code |-> create_locks(Root, self.block_id)] :
             self \in Handles}
    \cup {[op |-> "read_at", code |-> read_at_locks(self)] : self \in Handles}
    \cup {[op |-> "write_at", code |-> write_at_locks(self)] : self \in Handles}
    \cup {[op |-> "clear", code |-> clear_locks(self)] : self \in Handles}

\* The locks thread t holds.
Held(t) ==
    [fs |-> run.fs = t, manager |-> run.manager = t,
     entries |-> {b \in FsBlocks : run.entry[b] = t}]

InitLock ==
    /\ disk = FreshDisk
    /\ queue = <<>>
    /\ orphans = <<>>
    /\ panicked = FALSE
    /\ run = [ops |-> 0,
              code |-> [t \in AllThreads |-> <<>>],
              op |-> [t \in AllThreads |-> ""],
              busy |-> [t \in AllThreads |-> FALSE],
              fs |-> 0, manager |-> 0,
              entry |-> [b \in FsBlocks |-> 0],
              todo |-> [t \in AllThreads |-> <<>>]]
    /\ last = [op |-> "init", arg |-> <<0, 0>>, ret |-> None, pre |-> [fs |-> FALSE, manager |-> FALSE, entries |-> {}]]
    /\ written = FreshDisk

\* The instruction thread t executes next.
At(t, k) == run.code[t] # <<>> /\ Head(run.code[t]).k = k
Next_b(t) == Head(run.code[t]).b

\* Thread t has executed its instruction; the operation returns with the
\* last one.
Done(t, r) ==
    [r EXCEPT !.code[t] = Tail(@),
              !.busy[t] = IF Len(run.code[t]) = 1 THEN FALSE ELSE @,
              !.op[t] = IF Len(run.code[t]) = 1 THEN "" ELSE @]

Stepped(t, k, b) ==
    /\ last' = [op |-> k, arg |-> <<t, b>>, ret |-> None, pre |-> Held(t)]
    /\ UNCHANGED written

\* A thread calls an Inode operation.
Call(t, c) ==
    /\ ~panicked /\ run.ops < MaxCalls
    /\ run.code[t] = <<>>
    /\ run' = [run EXCEPT !.ops = @ + 1, !.code[t] = c.code, !.op[t] = c.op]
    /\ Stepped(t, "call", 0)
    /\ UNCHANGED <<disk, queue, orphans, panicked>>

\* self.fs.lock()
FsLock(t) ==
    /\ At(t, "fs_lock") /\ run.fs = 0
    /\ run' = Done(t, [run EXCEPT !.fs = t])
    /\ Stepped(t, "fs_lock", 0)
    /\ UNCHANGED <<disk, queue, orphans, panicked>>

\* The MutexGuard of the filesystem goes out of scope.
FsUnlock(t) ==
    /\ At(t, "fs_unlock")
    /\ run' = Done(t, [run EXCEPT !.fs = 0])
    /\ Stepped(t, "fs_unlock", 0)
    /\ UNCHANGED <<disk, queue, orphans, panicked>>

\* get_block_cache (block_cache.rs:161-168): the manager's lock is taken,
\* the entry found or admitted, and the lock released with the return.
GetBlockCache(t) ==
    /\ ~panicked
    /\ At(t, "get") /\ run.manager = 0
    /\ SetSt(get_block_cache(St, Next_b(t)).m)
    /\ run' = Done(t, [run EXCEPT !.busy[t] = TRUE])
    /\ Stepped(t, "get", Next_b(t))

\* .lock() on the Arc<Mutex<BlockCache>> get_block_cache returned
EntryLock(t) ==
    /\ At(t, "lock") /\ run.entry[Next_b(t)] = 0
    /\ run' = Done(t, [run EXCEPT !.entry[Next_b(t)] = t])
    /\ Stepped(t, "lock", Next_b(t))
    /\ UNCHANGED <<disk, queue, orphans, panicked>>

\* The end of the statement: the entry's guard and the Arc are dropped.
EntryUnlock(t) ==
    /\ At(t, "unlock")
    /\ SetSt(unpin(St, Next_b(t)))
    /\ run' = Done(t, [run EXCEPT
                          !.entry[Next_b(t)] = IF @ = t THEN 0 ELSE @])
    /\ Stepped(t, "unlock", Next_b(t))

\* block_cache_sync_all (block_cache.rs:171-176): BLOCK_CACHE_MANAGER.lock()
SyncLock(t) ==
    /\ At(t, "sync_all") /\ run.manager = 0
    /\ run' = [run EXCEPT !.manager = t, !.todo[t] = QueueOrder(queue),
                          !.code[t] = Instr("sync_entry", 0) \o Tail(@)]
    /\ Stepped(t, "sync_all", 0)
    /\ UNCHANGED <<disk, queue, orphans, panicked>>

\* block_cache_sync_all: cache.lock().sync() for the next entry of the queue
SyncEntry(t) ==
    /\ At(t, "sync_entry") /\ run.todo[t] # <<>>
    /\ run.entry[Head(run.todo[t])] = 0
    /\ LET i == find_pair(queue, Head(run.todo[t]))
       IN  /\ disk' = sync_disk(disk, queue[i])
           /\ queue' = [queue EXCEPT ![i] = sync_entry(@)]
    /\ run' = [run EXCEPT !.todo[t] = Tail(@)]
    /\ Stepped(t, "sync_entry", Head(run.todo[t]))
    /\ UNCHANGED <<orphans, panicked>>

\* block_cache_sync_all returns: the manager's guard goes out of scope.
SyncUnlock(t) ==
    /\ At(t, "sync_entry") /\ run.todo[t] = <<>>
    /\ run' = Done(t, [run EXCEPT !.manager = 0])
    /\ Stepped(t, "sync_unlock", 0)
    /\ UNCHANGED <<disk, queue, orphans, panicked>>

NextLock ==
    \/ \E t \in Threads : \E c \in Calls : Call(t, c)
    \/ \E t \in AllThreads : FsLock(t)
    \/ \E t \in AllThreads : FsUnlock(t)
    \/ \E t \in AllThreads : GetBlockCache(t)
    \/ \E t \in AllThreads : EntryLock(t)
    \/ \E t \in AllThreads : EntryUnlock(t)
    \/ \E t \in AllThreads : SyncLock(t)
    \/ \E t \in AllThreads : SyncEntry(t)
    \/ \E t \in AllThreads : SyncUnlock(t)

SpecLock == InitLock /\ [][NextLock]_vars

\* An upward caller calls block_cache_sync_all without the filesystem lock.
SyncCall ==
    Call(Syncer, [op |-> "block_cache_sync_all", code |-> Instr("sync_all", 0)])

NextSync ==
    \/ NextLock
    \/ SyncCall

SpecSync == InitLock /\ [][NextSync]_vars

\* The owner of the lock thread t is waiting for (0: t is not waiting).
WaitsFor(t) ==
    IF At(t, "fs_lock") THEN run.fs
    ELSE IF At(t, "get") \/ At(t, "sync_all") THEN run.manager
    ELSE IF At(t, "lock") THEN run.entry[Next_b(t)]
    ELSE IF At(t, "sync_entry") /\ run.todo[t] # <<>>
    THEN run.entry[Head(run.todo[t])]
    ELSE 0

\* ------------------------------------------------------------- lock claims
\* C23: an Inode operation holds the filesystem lock from before the first
\* block it touches until it returns, so at most one operation is between
\* its first access and its return at any time: no operation sees the
\* blocks of a directory while another one is halfway through changing them.
C23_Atomicity ==
    /\ \A t \in Threads : run.busy[t] => run.fs = t
    /\ \A t, u \in Threads : run.busy[t] /\ run.busy[u] => t = u
    /\ \A t \in Threads : Held(t).entries # {} => run.busy[t]

\* C23 witness: create holds the lock of the root's block inside its append
\* while another thread that called an operation waits for the filesystem
\* lock.
C23_Witness ==
    \E t, u \in Threads :
        /\ run.op[t] = "create" /\ run.busy[t]
        /\ Root.block_id \in Held(t).entries /\ At(t, "lock")
        /\ At(u, "fs_lock")

\* The filesystem lock is taken by a thread that holds no lock of the
\* cache, and the locks of the cache are taken under the filesystem lock.
LockOrder ==
    /\ last.op = "fs_lock" => ~last.pre.manager /\ last.pre.entries = {}
    /\ last.op \in {"get", "lock", "sync_all", "sync_entry"} => last.pre.fs

\* No set of threads waits in a circle: in every set one thread is not
\* waiting for a lock a thread of the set holds.
NoWaitCycle ==
    \A S \in SUBSET Threads : S # {} => \E t \in S : WaitsFor(t) \notin S

\* A thread inside a call that is not waiting executes its next instruction
\* when it is scheduled, and a lock a thread waits for is held by a thread
\* inside a call; every step takes one instruction off the code of a call
\* or one entry off the list of its sync_all.
Progress ==
    \A t \in Threads :
        WaitsFor(t) # 0 =>
            WaitsFor(t) \in Threads /\ run.code[WaitsFor(t)] # <<>>

\* C24: concurrent Inode operations take the filesystem lock before the
\* manager's lock and any entry's lock and never while they hold one of
\* those; no set of threads waits in a circle, and every lock waited for is
\* held by a running operation that is not in such a circle, so every
\* operation that was called returns when the threads are scheduled fairly.
C24_DeadlockFree == LockOrder /\ NoWaitCycle /\ Progress

\* C24 witness: a thread waits for the filesystem lock while its holder is
\* inside block_cache_sync_all with the manager's lock.
C24_Witness ==
    \E t, u \in Threads :
        /\ At(t, "fs_lock") /\ run.fs = u
        /\ run.manager = u /\ At(u, "sync_entry") /\ Len(run.todo[u]) = 1

\* C29: an operation never waits for a lock it holds itself.  While the
\* closure of read_disk_inode or modify_disk_inode holds the lock of the
\* inode's block, no nested step locks that entry again, and
\* block_cache_sync_all is called when the operation holds no entry's lock.
C29_NoSelfDeadlock ==
    /\ \A t \in Threads : WaitsFor(t) # t
    /\ \A t \in Threads :
          (At(t, "sync_all") \/ At(t, "sync_entry")) => Held(t).entries = {}
    /\ last.op = "lock" => last.arg[2] \notin last.pre.entries

\* C29 witness: write_at, inside the closure that holds the lock of its
\* inode's block, is about to lock the block of the data bitmap; the inode
\* is in the block of the root directory.
C29_Witness ==
    \E t \in Threads :
        /\ run.op[t] = "write_at"
        /\ Held(t).entries = {Root.block_id}
        /\ At(t, "lock") /\ Next_b(t) = DataBitmap.start_block_id

\* C30: block_cache_sync_all called without the filesystem lock while an
\* Inode operation runs cannot deadlock: sync_all never holds the manager's
\* lock waiting for the lock of an entry whose holder waits for the
\* manager's lock inside get_block_cache.
C30_SyncNoDeadlock ==
    ~ \E t \in Threads :
          /\ run.manager = Syncer /\ WaitsFor(Syncer) = t
          /\ At(t, "get") /\ WaitsFor(t) = Syncer

=============================================================================
